---------------------------- MODULE Spec2Model ----------------------------
(***************************************************************************)
(* The frame/tic timer of i_time.cpp: three process-wide timestamps        *)
(* (FirstFrameStartTime, CurrentFrameStartTime, FreezeTime), the steady    *)
(* clock they are read from, and the operations on them.                   *)
(*                                                                         *)
(* Times are nanoseconds, with the program's own constants (35 tics per    *)
(* second, 10^9 ns per second).  The clock moves over a grid of values     *)
(* that follow the tic boundaries TicToNS(k), so that the differences      *)
(* between clock readings fall on both sides of the points where the       *)
(* integer conversions round.                                              *)
(*                                                                         *)
(* uint64_t values are written as residues modulo 2^64 taken in a window   *)
(* around 0: a value n >= 0 is n itself, a value n < 0 stands for the      *)
(* unsigned number 2^64 + n (the result of an unsigned subtraction that    *)
(* wrapped).  Sums and differences of residues are residues; the two       *)
(* conversions that divide (NSToTic, NSToMS) compute the quotient of the   *)
(* unsigned number a residue stands for.  A conversion of an unsigned      *)
(* value to int keeps its low 32 bits (what C++20 defines and every        *)
(* compiler of the program does).                                          *)
(***************************************************************************)
EXTENDS Integers, FiniteSets, Sequences

(***************************************************************************)
(* Program constants.                                                      *)
(***************************************************************************)
TICRATE == 35

NSPerSec == 1000000000

NSPerMS == 1000000

VBLRate == 70

MSPerSec == 1000

\* (2^64 \div 10^9) % 2^32 and 2^64 % 10^9: 2^64 = 18446744073 * 10^9 + 709551616
\* and 18446744073 = 4 * 2^32 + 1266874889.
U64DivSecLow == 1266874889

U64ModSec == 709551616

\* (2^64 \div 10^6) % 2^32 as a residue modulo 2^32 (4154504685 - 2^32) and
\* 2^64 % 10^6: 2^64 = 18446744073709 * 10^6 + 551616.
U64DivMSLow == -140462611

U64ModMS == 551616

(***************************************************************************)
(* Bounds of the model.                                                    *)
(***************************************************************************)
\* The clock grid covers the tic boundaries 0 .. MaxPeriods.
MaxPeriods == 2

\* I_WaitVBL is called with count in 0 .. MaxCount.
MaxCount == 2

\* I_WaitForTic is called with prevtic in 0 .. MaxPrevTic.
MaxPrevTic == 4

\* Loop iterations of one I_WaitForTic call are counted up to MaxIters.
MaxIters == 2

\* I_FreezeTime(false) is called at most MaxThaws times.
MaxThaws == 2

\* The clock grid of the executions that only wait (SpecWait) covers the tic
\* boundaries 0 .. MaxWaitPeriods.
MaxWaitPeriods == 5

(***************************************************************************)
(* Unit conversions (i_time.cpp lines 58-76).                              *)
(***************************************************************************)
RECURSIVE GCD(_, _)
GCD(a, b) == IF b = 0 THEN a ELSE GCD(b, a % b)

MSToNS(ms) == ms * NSPerMS

\* static_cast<uint32_t>(ns / 1'000'000).  For a wrapped ns the dividend is
\* 2^64 + ns; the result is a residue modulo 2^32.
NSToMS(ns) ==
  IF ns >= 0 THEN ns \div NSPerMS
  ELSE U64DivMSLow + ((U64ModMS + ns) \div NSPerMS)

\* static_cast<int>(ns * TICRATE / 1'000'000'000), the quotient rounded down.
\* The factor TICRATE / 10^9 is taken in lowest terms, num / den = 7 /
\* (2 * 10^8), and ns is split as a * den + b with 0 <= b < den, so that no
\* intermediate product exceeds TLC's 32-bit integers; the quotient is the
\* same: floor(35 ns / 10^9) = 7 a + floor(7 b / den).
\* For a wrapped ns the unsigned product is 2^64 + 35 ns (multiplication
\* modulo 2^64), its quotient by 10^9 is (2^64 \div 10^9) +
\* floor((2^64 % 10^9 + 35 ns) / 10^9), and the conversion to int keeps the
\* low 32 bits of it.
\* NSToTic_Nearest is the variant that rounds to the nearest tic.
NSToTic_Nearest(ns) ==
  LET g == GCD(NSPerSec, TICRATE)
      num == TICRATE \div g
      den == NSPerSec \div g
      a == ns \div den
      b == ns % den
  IN  IF ns >= 0
      THEN a * num + ((2 * b * num + den) \div (2 * den))
      ELSE U64DivSecLow + a * num + (((U64ModSec \div g) + b * num) \div den)

NSToTic(ns) ==
  LET g == GCD(NSPerSec, TICRATE)
      num == TICRATE \div g
      den == NSPerSec \div g
      a == ns \div den
      b == ns % den
  IN  IF ns >= 0
      THEN a * num + ((b * num) \div den)
      ELSE U64DivSecLow + a * num + (((U64ModSec \div g) + b * num) \div den)

\* static_cast<uint64_t>(tic) * 1'000'000'000 / TICRATE, in lowest terms as
\* above.  Only called with tic >= 0 inside the window.
TicToNS(tic) ==
  LET g == GCD(NSPerSec, TICRATE)
  IN  (tic * (NSPerSec \div g)) \div (TICRATE \div g)

(***************************************************************************)
(* The steady clock.                                                       *)
(***************************************************************************)
VARIABLES
  clock,                  \* the steady clock, read by GetClockTimeNS
  horizon,                \* the last tic boundary the clock grid covers
  FirstFrameStartTime,
  CurrentFrameStartTime,
  FreezeTime,
  pc,                     \* "idle", or "wait" inside I_WaitForTic's loop
  wait,                   \* I_WaitForTic's locals while pc = "wait"
  ret,                    \* the last completed call and what it returned
  snapped,                \* history: I_SetFrameTime has been called
  frozenFrom,             \* history: what was true when time was frozen
  thaws                   \* history: the number of I_FreezeTime(false) calls

vars ==
  << clock, horizon, FirstFrameStartTime, CurrentFrameStartTime, FreezeTime,
     pc, wait, ret, snapped, frozenFrom, thaws >>

\* The readings of the steady clock: one nanosecond past each tic boundary of
\* its epoch, so that a reading is never 0 (0 marks an unset timestamp) and
\* the differences of two readings fall on both sides of a tic boundary.
ClockValues == { TicToNS(k) + 1 : k \in 0..horizon }

timer == << FirstFrameStartTime, CurrentFrameStartTime, FreezeTime >>

GetClockTimeNS == clock

NoWait == [prevtic |-> 0, time |-> 0, iters |-> 0, sleepMS |-> 0, seen |-> {}]

\* History of the current frozen period: whether the first frame was set when
\* it began, ElapsedNanos() and the time since the last snapshot at that
\* moment, the clock at that moment, whether I_FreezeTime(true) was called
\* again since, and whether I_NSTime was called since.
NoFreeze ==
  [set |-> FALSE, elapsed |-> 0, gap |-> 0, since |-> 0,
   refrozen |-> FALSE, queried |-> FALSE]

Init ==
  /\ horizon = MaxPeriods
  /\ clock \in ClockValues
  /\ FirstFrameStartTime = 0
  /\ CurrentFrameStartTime = 0
  /\ FreezeTime = 0
  /\ pc = "idle"
  /\ wait = NoWait
  /\ ret = [op |-> "none"]
  /\ snapped = FALSE
  /\ frozenFrom = NoFreeze
  /\ thaws = 0

\* Time passes: the clock is monotonic.
Tick ==
  /\ \E t \in ClockValues : t > clock /\ clock' = t
  /\ UNCHANGED << timer, pc, wait, ret, snapped, frozenFrom, thaws, horizon >>

\* std::this_thread::sleep_for(ms): the clock values the caller may wake at.
\* A sleep that starts on the grid and outlasts it ends exactly on time.
SleepFor(ms) ==
  IF ms > 0
  THEN LET late == { t \in ClockValues : t >= clock + MSToNS(ms) }
       IN  IF late = {} /\ clock \in ClockValues
           THEN { clock + MSToNS(ms) }
           ELSE late
  ELSE { clock }

(***************************************************************************)
(* I_SetFrameTime (lines 78-92): the timestamps after a call that reads    *)
(* the clock as now.                                                       *)
(***************************************************************************)
\* Variant: the snapshot is taken whether or not time is frozen.
SetFrameTime_IgnoreFreeze(now, first, current, freeze) ==
  [current |-> now, first |-> IF first = 0 THEN now ELSE first]

\* Variant: every snapshot taken while not frozen restarts the first frame.
SetFrameTime_ResetFirst(now, first, current, freeze) ==
  IF freeze = 0
  THEN [current |-> now, first |-> now]
  ELSE [current |-> current, first |-> first]

\* Variant: FirstFrameStartTime is taken from CurrentFrameStartTime before the
\* clock is stored in it.
SetFrameTime_StaleFirst(now, first, current, freeze) ==
  IF freeze = 0
  THEN [current |-> now, first |-> IF first = 0 THEN current ELSE first]
  ELSE [current |-> current, first |-> first]

SetFrameTime(now, first, current, freeze) ==
  IF freeze = 0
  THEN [current |-> now, first |-> IF first = 0 THEN now ELSE first]
  ELSE [current |-> current, first |-> first]

I_SetFrameTime ==
  /\ pc = "idle"
  /\ LET s == SetFrameTime(GetClockTimeNS, FirstFrameStartTime,
                           CurrentFrameStartTime, FreezeTime)
     IN  /\ CurrentFrameStartTime' = s.current
         /\ FirstFrameStartTime' = s.first
  /\ snapped' = TRUE
  /\ ret' = [op |-> "I_SetFrameTime"]
  /\ UNCHANGED << clock, FreezeTime, pc, wait, frozenFrom, thaws, horizon >>

(***************************************************************************)
(* I_GetTime (lines 161-164).                                              *)
(***************************************************************************)
GetTime(first, current) == NSToTic(current - first) + 1

CurrentTic == GetTime(FirstFrameStartTime, CurrentFrameStartTime)

I_GetTime ==
  /\ pc = "idle"
  /\ ret' = [op |-> "I_GetTime", val |-> CurrentTic]
  /\ UNCHANGED << clock, timer, pc, wait, snapped, frozenFrom, thaws, horizon >>

(***************************************************************************)
(* I_WaitVBL (lines 94-102): sleep 1000 * count / 70 ms, then snapshot.    *)
(***************************************************************************)
\* Variant: the division by 70 is done before the multiplication by 1000.
WaitVBLSleepMS_DivFirst(count) == MSPerSec * (count \div VBLRate)

WaitVBLSleepMS(count) == (MSPerSec * count) \div VBLRate

I_WaitVBL(count) ==
  /\ pc = "idle"
  /\ \E t \in SleepFor(WaitVBLSleepMS(count)) :
       /\ clock' = t
       /\ LET s == SetFrameTime(t, FirstFrameStartTime,
                                CurrentFrameStartTime, FreezeTime)
          IN  /\ CurrentFrameStartTime' = s.current
              /\ FirstFrameStartTime' = s.first
       /\ ret' = [op |-> "I_WaitVBL", count |-> count]
  /\ snapped' = TRUE
  /\ UNCHANGED << FreezeTime, pc, wait, frozenFrom, thaws, horizon >>

(***************************************************************************)
(* I_WaitForTic (lines 104-121).  The call evaluates the loop condition    *)
(* (line 109); each further step is one pass through the loop body (lines  *)
(* 113-117) followed by the next evaluation of the condition.              *)
(***************************************************************************)
\* while ((time = I_GetTime()) <= prevtic), and two variants of the comparison.
WaitLoops_Strict(time, prevtic) == time < prevtic

WaitLoops_OffByOne(time, prevtic) == time <= prevtic + 1

WaitLoops(time, prevtic) == time <= prevtic

\* Variant: the sleep leaves no margin of 2 ms.
WaitSleepMS_NoMargin(time, prevtic) ==
  LET sleepTime == prevtic - time
  IN  IF sleepTime > 2 THEN sleepTime ELSE 0

\* The sleep the loop body asks for, in ms (0: none).
WaitSleepMS(time, prevtic) ==
  LET sleepTime == prevtic - time
  IN  IF sleepTime > 2 THEN sleepTime - 2 ELSE 0

WaitReturn(w) ==
  [op |-> "I_WaitForTic", val |-> w.time, prevtic |-> w.prevtic,
   iters |-> w.iters, sleepMS |-> w.sleepMS, seen |-> w.seen]

I_WaitForTic_Call(prevtic) ==
  /\ pc = "idle"
  /\ LET time == CurrentTic
         w == [prevtic |-> prevtic, time |-> time, iters |-> 0,
               sleepMS |-> 0, seen |-> {}]
     IN  IF WaitLoops(time, prevtic)
         THEN /\ pc' = "wait"
              /\ wait' = w
              /\ ret' = [op |-> "none"]
         ELSE /\ pc' = "idle"
              /\ wait' = NoWait
              /\ ret' = WaitReturn(w)
  /\ UNCHANGED << clock, timer, snapped, frozenFrom, thaws, horizon >>

I_WaitForTic_Loop ==
  /\ pc = "wait"
  /\ LET ms == WaitSleepMS(wait.time, wait.prevtic)
     IN  \E t \in SleepFor(ms) :
           LET s == SetFrameTime(t, FirstFrameStartTime,
                                 CurrentFrameStartTime, FreezeTime)
               time == GetTime(s.first, s.current)
               w == [prevtic |-> wait.prevtic, time |-> time,
                     iters |-> IF wait.iters < MaxIters
                               THEN wait.iters + 1 ELSE MaxIters,
                     sleepMS |-> ms, seen |-> wait.seen \cup {wait.time}]
           IN  /\ clock' = t
               /\ CurrentFrameStartTime' = s.current
               /\ FirstFrameStartTime' = s.first
               /\ IF WaitLoops(time, wait.prevtic)
                  THEN /\ pc' = "wait"
                       /\ wait' = w
                       /\ ret' = ret
                  ELSE /\ pc' = "idle"
                       /\ wait' = NoWait
                       /\ ret' = WaitReturn(w)
  /\ snapped' = TRUE
  /\ UNCHANGED << FreezeTime, frozenFrom, thaws, horizon >>

(***************************************************************************)
(* I_NSTime (lines 123-141): the value returned and FirstFrameStartTime    *)
(* after the call.                                                         *)
(***************************************************************************)
\* Variant: the frozen branch answers from the cached snapshot, like the
\* unfrozen one.
NSTime_Cached(now, first, current, freeze) ==
  [val |-> current - first, first |-> first]

NSTime(now, first, current, freeze) ==
  IF freeze = 0
  THEN [val |-> current - first, first |-> first]
  ELSE IF first = 0
       THEN [val |-> 0, first |-> now]
       ELSE [val |-> now - first, first |-> first]

I_NSTime ==
  /\ pc = "idle"
  /\ LET r == NSTime(GetClockTimeNS, FirstFrameStartTime,
                     CurrentFrameStartTime, FreezeTime)
     IN  /\ FirstFrameStartTime' = r.first
         /\ ret' = [op |-> "I_NSTime", val |-> r.val]
  /\ frozenFrom' = IF FreezeTime = 0 THEN frozenFrom
                   ELSE [frozenFrom EXCEPT !.queried = TRUE]
  /\ UNCHANGED << clock, CurrentFrameStartTime, FreezeTime, pc, wait,
                  snapped, thaws, horizon >>

\* I_MSTime (lines 151-154).
I_MSTime ==
  /\ pc = "idle"
  /\ LET r == NSTime(GetClockTimeNS, FirstFrameStartTime,
                     CurrentFrameStartTime, FreezeTime)
     IN  /\ FirstFrameStartTime' = r.first
         /\ ret' = [op |-> "I_MSTime", val |-> NSToMS(r.val)]
  /\ frozenFrom' = IF FreezeTime = 0 THEN frozenFrom
                   ELSE [frozenFrom EXCEPT !.queried = TRUE]
  /\ UNCHANGED << clock, CurrentFrameStartTime, FreezeTime, pc, wait,
                  snapped, thaws, horizon >>

(***************************************************************************)
(* I_FPSTimeNS (lines 143-149) and I_FPSTime (lines 156-159).              *)
(***************************************************************************)
\* Variant: the clock is read whether or not time is frozen.
FPSTimeNS_Live(now, current, freeze) == now

FPSTimeNS(now, current, freeze) == IF freeze = 0 THEN current ELSE now

I_FPSTimeNS ==
  /\ pc = "idle"
  /\ ret' = [op |-> "I_FPSTimeNS",
             val |-> FPSTimeNS(GetClockTimeNS, CurrentFrameStartTime, FreezeTime)]
  /\ UNCHANGED << clock, timer, pc, wait, snapped, frozenFrom, thaws, horizon >>

I_FPSTime ==
  /\ pc = "idle"
  /\ ret' = [op |-> "I_FPSTime",
             val |-> NSToMS(FPSTimeNS(GetClockTimeNS, CurrentFrameStartTime,
                                      FreezeTime))]
  /\ UNCHANGED << clock, timer, pc, wait, snapped, frozenFrom, thaws, horizon >>

(***************************************************************************)
(* I_GetTimeFrac (lines 166-176): the value stored through ms, and the     *)
(* returned double as the pair numerator / denominator it is the quotient  *)
(* of.  The quotient is evaluated where CurrentFrameStartTime -            *)
(* FirstFrameStartTime has not wrapped.                                    *)
(***************************************************************************)
\* Variant: the 0-based tic is stored.
GetTimeFracTic_ZeroBased(first, current) == NSToTic(current - first)

GetTimeFracTic(first, current) ==
  LET currentTic == NSToTic(current - first)
  IN  currentTic + 1

GetTimeFrac(first, current) ==
  LET currentTic == NSToTic(current - first)
      ticStartTime == first + TicToNS(currentTic)
      ticNextTime == first + TicToNS(currentTic + 1)
  IN  [num |-> current - ticStartTime, den |-> ticNextTime - ticStartTime]

I_GetTimeFrac ==
  /\ pc = "idle"
  /\ ret' = [op |-> "I_GetTimeFrac",
             ms |-> GetTimeFracTic(FirstFrameStartTime, CurrentFrameStartTime),
             frac |-> IF CurrentFrameStartTime >= FirstFrameStartTime
                      THEN GetTimeFrac(FirstFrameStartTime, CurrentFrameStartTime)
                      ELSE [num |-> 0, den |-> 0]]
  /\ UNCHANGED << clock, timer, pc, wait, snapped, frozenFrom, thaws, horizon >>

(***************************************************************************)
(* I_FreezeTime (lines 178-190).  Unfreezing reads the clock twice: for    *)
(* the frozen duration (line 186) and in I_SetFrameTime (line 88).         *)
(* The calls that unfreeze are counted up to MaxThaws.                     *)
(***************************************************************************)
\* Variant: the frozen duration is not added.
Unfreeze_NoExcise(now, first, freeze) == first

\* Variant: the frozen duration is added twice.
Unfreeze_ExciseTwice(now, first, freeze) == first + 2 * (now - freeze)

Unfreeze(now, first, freeze) == first + (now - freeze)

\* FreezeTime after I_FreezeTime(true) (line 182), and the variant that keeps
\* the timestamp of a freeze already in force.
FreezeStamp_KeepFirst(now, freeze) == IF freeze = 0 THEN now ELSE freeze

FreezeStamp(now, freeze) == now

I_FreezeTime(frozen) ==
  /\ pc = "idle"
  /\ IF frozen
     THEN /\ FreezeTime' = FreezeStamp(GetClockTimeNS, FreezeTime)
          /\ frozenFrom' =
               IF FreezeTime = 0
               THEN [set |-> FirstFrameStartTime # 0,
                     elapsed |-> CurrentFrameStartTime - FirstFrameStartTime,
                     gap |-> GetClockTimeNS - CurrentFrameStartTime,
                     since |-> GetClockTimeNS,
                     refrozen |-> FALSE, queried |-> FALSE]
               ELSE [frozenFrom EXCEPT !.refrozen = TRUE]
          /\ UNCHANGED << clock, FirstFrameStartTime, CurrentFrameStartTime,
                          snapped, thaws, horizon >>
     ELSE \E t \in ClockValues \cup {clock} :
            LET first == Unfreeze(GetClockTimeNS, FirstFrameStartTime, FreezeTime)
                s == SetFrameTime(t, first, CurrentFrameStartTime, 0)
            IN  /\ t >= clock
                /\ thaws < MaxThaws
                /\ thaws' = thaws + 1
                /\ clock' = t
                /\ FreezeTime' = 0
                /\ FirstFrameStartTime' = s.first
                /\ CurrentFrameStartTime' = s.current
                /\ snapped' = TRUE
                /\ frozenFrom' = NoFreeze
  /\ ret' = [op |-> "I_FreezeTime", frozen |-> frozen,
             matched |-> ~frozen /\ frozenFrom.set /\ ~frozenFrom.refrozen,
             excised |-> IF frozen THEN 0 ELSE GetClockTimeNS - FreezeTime,
             lost |-> IF ~frozen /\ frozenFrom.set
                      THEN FreezeTime - frozenFrom.since ELSE 0]
  /\ UNCHANGED << pc, wait, horizon >>

Next ==
  \/ Tick
  \/ I_SetFrameTime
  \/ \E count \in 0..MaxCount : I_WaitVBL(count)
  \/ \E prevtic \in 0..MaxPrevTic : I_WaitForTic_Call(prevtic)
  \/ I_WaitForTic_Loop
  \/ I_NSTime
  \/ I_MSTime
  \/ I_FPSTimeNS
  \/ I_FPSTime
  \/ I_GetTime
  \/ I_GetTimeFrac
  \/ \E frozen \in BOOLEAN : I_FreezeTime(frozen)

Spec == Init /\ [][Next]_vars

\* The executions in which time is never frozen.
NextNoFreeze ==
  \/ Tick
  \/ I_SetFrameTime
  \/ \E count \in 0..MaxCount : I_WaitVBL(count)
  \/ \E prevtic \in 0..MaxPrevTic : I_WaitForTic_Call(prevtic)
  \/ I_WaitForTic_Loop
  \/ I_NSTime
  \/ I_MSTime
  \/ I_FPSTimeNS
  \/ I_FPSTime
  \/ I_GetTime
  \/ I_GetTimeFrac

SpecNoFreeze == Init /\ [][NextNoFreeze]_vars

\* The executions in which I_FreezeTime(true) and I_FreezeTime(false) alternate,
\* starting with true.
NextAlternating ==
  \/ Tick
  \/ I_SetFrameTime
  \/ \E count \in 0..MaxCount : I_WaitVBL(count)
  \/ \E prevtic \in 0..MaxPrevTic : I_WaitForTic_Call(prevtic)
  \/ I_WaitForTic_Loop
  \/ I_NSTime
  \/ I_MSTime
  \/ I_FPSTimeNS
  \/ I_FPSTime
  \/ I_GetTime
  \/ I_GetTimeFrac
  \/ \E frozen \in BOOLEAN : frozen = (FreezeTime = 0) /\ I_FreezeTime(frozen)

SpecAlternating == Init /\ [][NextAlternating]_vars

\* The executions in which the first snapshot precedes any freeze, and
\* I_FreezeTime(true) and I_FreezeTime(false) alternate, starting with true.
NextFramed ==
  \/ Tick
  \/ I_SetFrameTime
  \/ \E count \in 0..MaxCount : I_WaitVBL(count)
  \/ \E prevtic \in 0..MaxPrevTic : I_WaitForTic_Call(prevtic)
  \/ I_WaitForTic_Loop
  \/ I_NSTime
  \/ I_MSTime
  \/ I_FPSTimeNS
  \/ I_FPSTime
  \/ I_GetTime
  \/ I_GetTimeFrac
  \/ \E frozen \in BOOLEAN :
       snapped /\ frozen = (FreezeTime = 0) /\ I_FreezeTime(frozen)

SpecFramed == Init /\ [][NextFramed]_vars

\* The executions of a frame loop that only snapshots, waits for tics and may
\* freeze time, on a clock grid long enough for a wait that sleeps to end.
\* The clock keeps advancing as long as the grid lasts, and a caller inside
\* I_WaitForTic keeps running its loop.
InitWait ==
  /\ horizon = MaxWaitPeriods
  /\ clock \in ClockValues
  /\ FirstFrameStartTime = 0
  /\ CurrentFrameStartTime = 0
  /\ FreezeTime = 0
  /\ pc = "idle"
  /\ wait = NoWait
  /\ ret = [op |-> "none"]
  /\ snapped = FALSE
  /\ frozenFrom = NoFreeze
  /\ thaws = 0

NextWait ==
  \/ Tick
  \/ I_SetFrameTime
  \/ \E prevtic \in 0..MaxPrevTic : I_WaitForTic_Call(prevtic)
  \/ I_WaitForTic_Loop
  \/ I_FreezeTime(TRUE)

SpecWait ==
  /\ InitWait
  /\ [][NextWait]_vars
  /\ WF_vars(Tick)
  /\ WF_vars(I_WaitForTic_Loop)

\* ElapsedNanos() as the caller of an unfrozen timer sees it.
Elapsed == CurrentFrameStartTime - FirstFrameStartTime

(***************************************************************************)
(* C1.  Once FirstFrameStartTime and CurrentFrameStartTime are both set    *)
(* (non-zero), CurrentFrameStartTime >= FirstFrameStartTime, so that their *)
(* unsigned difference never wraps.                                        *)
(***************************************************************************)
C1_FrameOrder ==
  (FirstFrameStartTime # 0 /\ CurrentFrameStartTime # 0)
    => CurrentFrameStartTime >= FirstFrameStartTime

(***************************************************************************)
(* C2.  While time is never frozen, CurrentTic() never decreases from one  *)
(* snapshot to the next (nor across any other step).                       *)
(***************************************************************************)
C2_TicMonotone == [][CurrentTic' >= CurrentTic]_vars

C2_Witness == snapped /\ FirstFrameStartTime # 0 /\ CurrentTic = 2

(***************************************************************************)
(* C3.  Whenever the elapsed time has not wrapped, FractionalTic() is in   *)
(* [0, 1): ticStartTime <= CurrentFrameStartTime < ticNextTime.            *)
(***************************************************************************)
C3_FracInUnitInterval ==
  CurrentFrameStartTime >= FirstFrameStartTime =>
    LET f == GetTimeFrac(FirstFrameStartTime, CurrentFrameStartTime)
    IN  0 <= f.num /\ f.num < f.den

(***************************************************************************)
(* C4.  The value I_GetTimeFrac stores through its ms argument equals what *)
(* CurrentTic() returns in the state of the call.                          *)
(***************************************************************************)
C4_SlotIsCurrentTic == ret.op = "I_GetTimeFrac" => ret.ms = CurrentTic

C4_Witness == ret.op = "I_GetTimeFrac" /\ ret.ms = 2 /\ FreezeTime = 0

(***************************************************************************)
(* C5.  Freezing an unfrozen timer whose first frame is set, and then      *)
(* unfreezing it.  Original statement: ElapsedNanos() right after the      *)
(* unfreeze differs, as a number, from its value E0 right before the       *)
(* freeze by at most the clock time between the last snapshot and the      *)
(* freeze call.  Two unsigned numbers written as residues differ by at     *)
(* most d when they lie on the same side of the wrap and their residues    *)
(* differ by at most d.                                                    *)
(***************************************************************************)
Thawing ==
  FreezeTime # 0 /\ FreezeTime' = 0 /\ frozenFrom.set /\ ~frozenFrom.refrozen

C5_ElapsedWithinGap ==
  [][Thawing =>
       /\ (Elapsed' >= 0) = (frozenFrom.elapsed >= 0)
       /\ Elapsed' - frozenFrom.elapsed <= frozenFrom.gap
       /\ frozenFrom.elapsed - Elapsed' <= frozenFrom.gap]_vars

(***************************************************************************)
(* C5 as amended.  The unsigned difference ElapsedNanos() - E0 is exactly  *)
(* the clock time between the last snapshot and the freeze call plus the   *)
(* clock time between the two clock reads of I_FreezeTime(false); the      *)
(* frozen duration does not enter it.                                      *)
(***************************************************************************)
C5_FrozenDurationExcised ==
  [][Thawing =>
       Elapsed' - frozenFrom.elapsed = frozenFrom.gap + (clock' - clock)]_vars

C5_Witness ==
  /\ ret.op = "I_FreezeTime"
  /\ ret.matched
  /\ ret.excised > 0
  /\ FirstFrameStartTime <= CurrentFrameStartTime

(***************************************************************************)
(* C6.  While time stays frozen, CurrentTic() keeps its value, whatever    *)
(* is called and however far the clock advances.                           *)
(***************************************************************************)
C6_FrozenTicPinned ==
  [][(FreezeTime # 0 /\ FreezeTime' # 0) => CurrentTic' = CurrentTic]_vars

(***************************************************************************)
(* C7.  CurrentTic() is 1 right after the first call of I_SetFrameTime     *)
(* (a call made by the caller, before which no other operation has called  *)
(* I_SetFrameTime either).                                                 *)
(***************************************************************************)
C7_FirstSnapshotTicOne ==
  [][(~snapped /\ I_SetFrameTime) => CurrentTic' = 1]_vars

(***************************************************************************)
(* C8.  Original statement, with t the time since the first frame:         *)
(* CurrentTic() is 1 at t = 0, 2 at t = 28,571,428 and 2 at                *)
(* t = 57,142,857.                                                         *)
(***************************************************************************)
C8_ExampleTics ==
  /\ Elapsed = 0 => CurrentTic = 1
  /\ Elapsed = 28571428 => CurrentTic = 2
  /\ Elapsed = 57142857 => CurrentTic = 2

(***************************************************************************)
(* C8 as amended.  CurrentTic() is 1 at t = 0, still 1 at t = 28,571,428,  *)
(* 2 from t = 28,571,429 on and still 2 at t = 57,142,857.                 *)
(***************************************************************************)
C8_ExampleTicsAmended ==
  /\ Elapsed = 0 => CurrentTic = 1
  /\ Elapsed = 28571428 => CurrentTic = 1
  /\ Elapsed = 28571429 => CurrentTic = 2
  /\ Elapsed = 57142857 => CurrentTic = 2

C8_Witness ==
  /\ FirstFrameStartTime # 0
  /\ FreezeTime = 0
  /\ Elapsed = 28571428
  /\ ret.op = "I_SetFrameTime"

(***************************************************************************)
(* C9.  When I_WaitForTic returns, the value returned is greater than      *)
(* prevtic, it is CurrentTic() of the state at return, and every tic the   *)
(* loop read before it was <= prevtic.                                     *)
(***************************************************************************)
C9_WaitReturnsFirstLaterTic ==
  ret.op = "I_WaitForTic" =>
    /\ ret.val > ret.prevtic
    /\ ret.val = CurrentTic
    /\ \A t \in ret.seen : t <= ret.prevtic

C9_Witness == ret.op = "I_WaitForTic" /\ ret.iters > 0 /\ ret.seen # {}

(***************************************************************************)
(* C10.  I_WaitForTic(N) called while CurrentTic() > N returns that tic at *)
(* once: no pass through the loop, no sleep, no snapshot, the three        *)
(* timestamps and the clock unchanged, frozen or not.                      *)
(***************************************************************************)
C10_WaitReturnsAtOnce ==
  [][(pc = "idle" /\ (pc' = "wait" \/ ret'.op = "I_WaitForTic")) =>
       LET N == IF pc' = "wait" THEN wait'.prevtic ELSE ret'.prevtic
       IN  (I_WaitForTic_Call(N) /\ CurrentTic > N) =>
             /\ pc' = "idle"
             /\ ret'.op = "I_WaitForTic"
             /\ ret'.val = CurrentTic
             /\ ret'.iters = 0
             /\ ret'.sleepMS = 0
             /\ timer' = timer
             /\ clock' = clock
             /\ snapped' = snapped]_vars

C10_Witness ==
  /\ ret.op = "I_WaitForTic"
  /\ ret.iters = 0
  /\ ret.val = 2
  /\ FreezeTime # 0

(***************************************************************************)
(* C11.  I_WaitForTic(N) called while time is frozen and CurrentTic() <= N *)
(* never returns as long as nobody unfreezes time: the call enters the     *)
(* loop, and every pass through the loop, however far the clock has        *)
(* advanced, leaves the function in the loop and the three timestamps as   *)
(* they were.  (While one caller is in the loop no other call runs, so     *)
(* time stays frozen.)                                                     *)
(***************************************************************************)
C11_FrozenWaitNeverReturns ==
  [][/\ (/\ pc = "idle"
         /\ FreezeTime # 0
         /\ (pc' = "wait" \/ ret'.op = "I_WaitForTic")) =>
          LET N == IF pc' = "wait" THEN wait'.prevtic ELSE ret'.prevtic
          IN  (I_WaitForTic_Call(N) /\ CurrentTic <= N) =>
                (pc' = "wait" /\ timer' = timer)
     /\ (pc = "wait" /\ FreezeTime # 0) =>
          (pc' = "wait" /\ timer' = timer /\ wait'.time = wait.time)]_vars

C11_Witness ==
  /\ pc = "wait"
  /\ FreezeTime # 0
  /\ wait.iters = MaxIters
  /\ clock > FreezeTime
  /\ CurrentFrameStartTime < FreezeTime

(***************************************************************************)
(* C12.  As claimed: the first I_NSTime call of a frozen period returns 0  *)
(* and sets FirstFrameStartTime to the clock; every later I_NSTime call of *)
(* the same frozen period returns clock - FirstFrameStartTime.             *)
(***************************************************************************)
C12_FirstFrozenQueryZero ==
  [][(FreezeTime # 0 /\ ret'.op = "I_NSTime" /\ I_NSTime) =>
       IF frozenFrom.queried
       THEN ret'.val = GetClockTimeNS - FirstFrameStartTime
       ELSE ret'.val = 0 /\ FirstFrameStartTime' = GetClockTimeNS]_vars

(***************************************************************************)
(* C12, amended.  The first I_NSTime call of a frozen period returns 0 and *)
(* sets FirstFrameStartTime to the clock only when FirstFrameStartTime is  *)
(* still unset (0); when it is already set, the first call returns         *)
(* clock - FirstFrameStartTime (a 64-bit unsigned difference) and leaves   *)
(* FirstFrameStartTime alone, as every later call of the same frozen       *)
(* period does.  No call changes CurrentFrameStartTime or FreezeTime.      *)
(***************************************************************************)
C12_FrozenQuery ==
  [][(FreezeTime # 0 /\ ret'.op = "I_NSTime" /\ I_NSTime) =>
       /\ (~frozenFrom.queried /\ FirstFrameStartTime = 0) =>
            (ret'.val = 0 /\ FirstFrameStartTime' = GetClockTimeNS)
       /\ (frozenFrom.queried \/ FirstFrameStartTime # 0) =>
            /\ ret'.val = GetClockTimeNS - FirstFrameStartTime
            /\ FirstFrameStartTime' = FirstFrameStartTime
       /\ CurrentFrameStartTime' = CurrentFrameStartTime
       /\ FreezeTime' = FreezeTime]_vars

\* A later call of a frozen period that began with the first frame unset:
\* the first call returned 0, this one the clock time since then.
C12_Witness ==
  /\ ret.op = "I_NSTime"
  /\ FreezeTime # 0
  /\ frozenFrom.queried
  /\ ~frozenFrom.set
  /\ ret.val > 0
  /\ ret.val = clock - FirstFrameStartTime

(***************************************************************************)
(* C13.  While time is not frozen, I_NSTime, I_FPSTimeNS, I_GetTime and    *)
(* I_GetTimeFrac read only the cached timestamps: each leaves the three    *)
(* timestamps as they were and returns a value fixed by them alone, so a   *)
(* call repeated with nothing but clock ticks and other such calls in      *)
(* between returns what it returned before, however far the clock has      *)
(* advanced.                                                               *)
(***************************************************************************)
C13_Query ==
  \/ (ret'.op = "I_NSTime" /\ I_NSTime)
  \/ (ret'.op = "I_FPSTimeNS" /\ I_FPSTimeNS)
  \/ (ret'.op = "I_GetTime" /\ I_GetTime)
  \/ (ret'.op = "I_GetTimeFrac" /\ I_GetTimeFrac)

C13_QueriesReadCache ==
  [][(FreezeTime = 0 /\ C13_Query) =>
       /\ timer' = timer
       /\ ret'.op = "I_NSTime" =>
            ret'.val = CurrentFrameStartTime - FirstFrameStartTime
       /\ ret'.op = "I_FPSTimeNS" => ret'.val = CurrentFrameStartTime
       /\ ret'.op = "I_GetTime" =>
            ret'.val = NSToTic(CurrentFrameStartTime - FirstFrameStartTime) + 1
       /\ ret'.op = "I_GetTimeFrac" =>
            /\ ret'.ms = NSToTic(CurrentFrameStartTime - FirstFrameStartTime) + 1
            /\ CurrentFrameStartTime >= FirstFrameStartTime =>
                 ret'.frac = GetTimeFrac(FirstFrameStartTime,
                                         CurrentFrameStartTime)
       /\ ret.op = ret'.op => ret' = ret]_vars

\* A query answered from the snapshot after the clock has moved on.
C13_Witness ==
  /\ ret.op = "I_FPSTimeNS"
  /\ FreezeTime = 0
  /\ snapped
  /\ ret.val = CurrentFrameStartTime
  /\ clock > CurrentFrameStartTime + TicToNS(1)

(***************************************************************************)
(* C14.  I_SetFrameTime while frozen leaves the three timestamps as they   *)
(* were.  While not frozen it sets CurrentFrameStartTime to the clock,     *)
(* sets FirstFrameStartTime to that same value if and only if it was unset *)
(* (0), and leaves FreezeTime alone.                                       *)
(***************************************************************************)
C14_SnapshotEffect ==
  [][(ret'.op = "I_SetFrameTime" /\ I_SetFrameTime) =>
       IF FreezeTime # 0
       THEN timer' = timer
       ELSE /\ CurrentFrameStartTime' = clock
            /\ FirstFrameStartTime' =
                 IF FirstFrameStartTime = 0 THEN clock
                 ELSE FirstFrameStartTime
            /\ FreezeTime' = FreezeTime
            /\ clock' = clock]_vars

\* A snapshot taken while not frozen, later than the first one.
C14_Witness ==
  /\ ret.op = "I_SetFrameTime"
  /\ FreezeTime = 0
  /\ CurrentFrameStartTime = clock
  /\ FirstFrameStartTime # 0
  /\ FirstFrameStartTime < CurrentFrameStartTime

(***************************************************************************)
(* C15.  As claimed: after I_FreezeTime(false), FreezeTime is 0,           *)
(* FirstFrameStartTime is its previous value plus (clock - previous        *)
(* FreezeTime), and CurrentFrameStartTime is the clock read of the         *)
(* snapshot the call ends with.                                            *)
(***************************************************************************)
C15_UnfreezeEffect ==
  [][(thaws' = thaws + 1) =>
       /\ FreezeTime' = 0
       /\ FirstFrameStartTime' = FirstFrameStartTime + (clock - FreezeTime)
       /\ CurrentFrameStartTime' = clock']_vars

(***************************************************************************)
(* C15, amended.  After I_FreezeTime(false), FreezeTime is 0 and           *)
(* CurrentFrameStartTime is the clock read of the snapshot the call ends   *)
(* with; FirstFrameStartTime is its previous value plus (clock - previous  *)
(* FreezeTime), except when that sum is 0 (the first frame was unset and   *)
(* the clock read equals FreezeTime): the snapshot then finds the first    *)
(* frame unset and sets FirstFrameStartTime to its own clock read.         *)
(***************************************************************************)
C15_UnfreezeEffectAmended ==
  [][(thaws' = thaws + 1) =>
       /\ FreezeTime' = 0
       /\ FirstFrameStartTime' =
            IF FirstFrameStartTime + (clock - FreezeTime) = 0
            THEN clock'
            ELSE FirstFrameStartTime + (clock - FreezeTime)
       /\ CurrentFrameStartTime' = clock'
       /\ clock' >= clock]_vars

\* An unfreeze whose snapshot reads the clock later than the unfreeze did.
C15_Witness ==
  /\ ret.op = "I_FreezeTime"
  /\ ~ret.frozen
  /\ ret.excised > 0
  /\ FreezeTime = 0
  /\ CurrentFrameStartTime = clock
  /\ FirstFrameStartTime # 0
  /\ FirstFrameStartTime # CurrentFrameStartTime
  /\ ret.matched
  /\ thaws = 1

(***************************************************************************)
(* C16.  As claimed: I_WaitVBL(n) returns no earlier than                  *)
(* floor(1000 * n / 70) ms of clock time after the call (1000 ms for       *)
(* n = 70), and when it returns CurrentFrameStartTime is the clock read    *)
(* taken after the sleep.                                                  *)
(***************************************************************************)
C16_WaitVBLSnapshots ==
  [][(ret'.op = "I_WaitVBL" /\ I_WaitVBL(ret'.count)) =>
       /\ clock' - clock >= ((1000 * ret'.count) \div 70) * NSPerMS
       /\ WaitVBLSleepMS(70) = 1000
       /\ CurrentFrameStartTime' = clock']_vars

(***************************************************************************)
(* C16, amended.  I_WaitVBL(n) returns no earlier than                     *)
(* floor(1000 * n / 70) ms of clock time after the call (1000 ms for       *)
(* n = 70).  When it returns and time is not frozen,                       *)
(* CurrentFrameStartTime is the clock read taken after the sleep; when     *)
(* time is frozen the three timestamps are as they were before the call.   *)
(***************************************************************************)
C16_WaitVBLSnapshotsUnlessFrozen ==
  [][(ret'.op = "I_WaitVBL" /\ I_WaitVBL(ret'.count)) =>
       /\ clock' - clock >= ((1000 * ret'.count) \div 70) * NSPerMS
       /\ WaitVBLSleepMS(70) = 1000
       /\ IF FreezeTime = 0
          THEN CurrentFrameStartTime' = clock'
          ELSE timer' = timer]_vars

\* A wait of two units (28 ms) that ended with a snapshot.
C16_Witness ==
  /\ ret.op = "I_WaitVBL"
  /\ ret.count = 2
  /\ FreezeTime = 0
  /\ CurrentFrameStartTime = clock
  /\ FirstFrameStartTime # 0
  /\ CurrentFrameStartTime - FirstFrameStartTime >= 28 * NSPerMS

C18_ClockEnd == TicToNS(horizon) + 1

C18_WaitEventuallyReturns ==
  /\ (/\ pc = "wait"
      /\ FreezeTime = 0
      /\ FirstFrameStartTime # 0
      /\ CurrentFrameStartTime >= FirstFrameStartTime
      /\ FirstFrameStartTime <= C18_ClockEnd
      /\ GetTime(FirstFrameStartTime, C18_ClockEnd) > wait.prevtic)
       ~> (pc = "idle" /\ ret.op = "I_WaitForTic" /\ ret.val > ret.prevtic)
  /\ [][(pc = "wait" /\ FreezeTime = 0 /\ I_WaitForTic_Loop) =>
          LET sleepTime == wait.prevtic - CurrentTic
              ms == IF sleepTime > 2 THEN sleepTime - 2 ELSE 0
          IN  /\ CurrentFrameStartTime' = clock'
              /\ clock' >= clock + ms * NSPerMS
              /\ IF pc' = "wait" THEN wait'.sleepMS = ms
                 ELSE ret'.sleepMS = ms]_vars

\* A call that slept in the loop and returned.
C18_Witness ==
  /\ pc = "idle"
  /\ ret.op = "I_WaitForTic"
  /\ ret.sleepMS > 0
  /\ ret.iters > 0
  /\ ret.val > ret.prevtic
  /\ FreezeTime = 0

(***************************************************************************)
(* C19.  In the executions in which the first snapshot precedes any freeze *)
(* and I_FreezeTime(true) / I_FreezeTime(false) strictly alternate,        *)
(* starting with true, CurrentTic() never decreases from one state to the  *)
(* next: not across a snapshot, not across a query or a snapshot made      *)
(* while frozen (which leave it as it is), and not across an unfreeze,     *)
(* after which the elapsed time is no less than before.                    *)
(***************************************************************************)
C19_TicMonotoneAcrossFreezes ==
  [][/\ GetTime(FirstFrameStartTime', CurrentFrameStartTime')
          >= GetTime(FirstFrameStartTime, CurrentFrameStartTime)
     /\ (FreezeTime # 0 /\ FreezeTime' # 0) => CurrentTic' = CurrentTic
     /\ (thaws' = thaws + 1) => Elapsed' >= Elapsed]_vars

\* Unfrozen for the second time, a tic later than the first frame, after a
\* frozen period of a tic or more.
C19_Witness ==
  /\ thaws = 2
  /\ FreezeTime = 0
  /\ ret.op = "I_FreezeTime"
  /\ ret.excised >= TicToNS(1)
  /\ CurrentTic = 2

=============================================================================
